---- MODULE Spec2Model ----
(***************************************************************************)
(* Model of src/phenoml_client.py: the PhenoMLClient (token, authenticate, *)
(* request) and the demo operations built on it.  One action per           *)
(* operation; the server's replies and the callers' arguments are inputs   *)
(* drawn from small sets.                                                  *)
(***************************************************************************)
EXTENDS Integers, Sequences, FiniteSets, TLC

(***************************************************************************)
(* Bounds of the model.                                                    *)
(***************************************************************************)
MaxResults == 4   \* longest fhir_results list a reply carries
MaxPatients == 6  \* longest patientIds list a reply carries

(***************************************************************************)
(* Python / JSON values.  Every value is a record tagged by its type, with *)
(* a payload field named after the type, so values of different types are  *)
(* never compared payload to payload.                                      *)
(***************************************************************************)
PyNone == [t |-> "None"]
JStr(s) == [t |-> "str", s |-> s]
JInt(n) == [t |-> "int", n |-> n]
JBool(b) == [t |-> "bool", b |-> b]
JList(l) == [t |-> "list", l |-> l]
JMap(m) == [t |-> "map", m |-> m]
EmptyDict == [k \in {} |-> PyNone]

\* Python truthiness: `if x:` / `not x` / `x or y`
Truthy(v) ==
  CASE v.t = "None" -> FALSE
    [] v.t = "str" -> v.s # ""
    [] v.t = "int" -> v.n # 0
    [] v.t = "bool" -> v.b
    [] v.t = "list" -> Len(v.l) > 0
    [] v.t = "map" -> DOMAIN v.m # {}

\* `a or b`
PyOr(a, b) == IF Truthy(a) THEN a ELSE b

\* dict.get(k, default) on a mapping
Get(d, k, default) == IF k \in DOMAIN d.m THEN d.m[k] ELSE default

\* d[k] = v
Put(d, k, v) == [x \in (DOMAIN d) \cup {k} |-> IF x = k THEN v ELSE d[x]]

\* str.upper() on the method names the callers use
Upper(s) ==
  CASE s = "get" -> "GET"
    [] s = "post" -> "POST"
    [] s = "delete" -> "DELETE"
    [] OTHER -> s

(***************************************************************************)
(* State.  token is PhenoMLClient.token; call records the last invocation  *)
(* (operation, arguments, the server's replies, the value returned or the  *)
(* exception raised, the HTTP requests sent and the lines printed);        *)
(* prevToken is the token the client held when that invocation started.    *)
(***************************************************************************)
VARIABLES token, prevToken, call

vars == <<token, prevToken, call>>

NoArgs == [none |-> PyNone]

\* what the transport does with one HTTP request: it raises, or the reply's
\* body parses to a JSON value
TransportRaise == [t |-> "raise"]
InvalidJson == [t |-> "invalid"]

Line(tag) == [line |-> tag]
LineN(tag, n) == [line |-> tag, n |-> n]

HttpReq(method, endpoint, body) ==
  [method |-> method, endpoint |-> endpoint, body |-> body]

\* PhenoMLClient.__init__: self.token = None
Init ==
  /\ token = PyNone
  /\ prevToken = PyNone
  /\ call = [op |-> "init", args |-> NoArgs, replies |-> <<>>, ret |-> PyNone,
             raised |-> FALSE, sent |-> <<>>, out |-> <<>>]

(***************************************************************************)
(* PhenoMLClient.authenticate                                              *)
(***************************************************************************)
AuthToken(body) ==
  PyOr(Get(body, "token", PyNone), Get(body, "access_token", PyNone))

\* a variant of AuthNewToken that drops the token when authentication fails
AuthNewTokenClearing(tok, reply) ==
  IF reply.t = "http" /\ reply.status = 200 /\ reply.json.t = "map"
  THEN AuthToken(reply.json)
  ELSE PyNone

\* the token authenticate leaves in self.token
AuthNewToken(tok, reply) ==
  IF reply.t = "http" /\ reply.status = 200 /\ reply.json.t = "map"
  THEN AuthToken(reply.json)
  ELSE tok

\* what authenticate returns
AuthReturn(reply) ==
  IF reply.t = "raise" THEN FALSE
  ELSE IF reply.status = 200 THEN reply.json.t = "map"
  ELSE FALSE

AuthOut(reply) ==
  IF reply.t = "raise" THEN <<Line("auth_error")>>
  ELSE IF reply.status = 200
       THEN IF reply.json.t = "map" THEN <<Line("auth_ok")>>
            ELSE <<Line("auth_error")>>
  ELSE <<LineN("auth_failed", reply.status), Line("auth_response_text")>>

AuthStatuses == {200, 401, 500}
AuthTokenVals == {PyNone, JStr(""), JStr("t1")}
AuthAccessVals == {JStr(""), JStr("t2")}
AuthBodies ==
  {JMap(EmptyDict), PyNone, JList(<<>>), JStr("t1"), InvalidJson}
  \cup {JMap([token |-> a]) : a \in AuthTokenVals}
  \cup {JMap([access_token |-> b]) : b \in AuthAccessVals}
  \cup {JMap([token |-> a, access_token |-> b]) :
          a \in AuthTokenVals, b \in AuthAccessVals}
AuthReplies ==
  {TransportRaise}
  \cup {[t |-> "http", status |-> 200, json |-> b] : b \in AuthBodies}
  \cup {[t |-> "http", status |-> s, json |-> b] :
          s \in AuthStatuses \ {200},
          b \in {JMap([token |-> JStr("t1")]), JMap([message |-> JStr("denied")])}}

Authenticate ==
  \E reply \in AuthReplies :
    /\ token' = AuthNewToken(token, reply)
    /\ prevToken' = token
    /\ call' = [op |-> "authenticate", args |-> NoArgs, replies |-> <<reply>>,
                ret |-> JBool(AuthReturn(reply)), raised |-> FALSE,
                sent |-> <<HttpReq("POST", "/auth/token", PyNone)>>,
                out |-> AuthOut(reply)]

(***************************************************************************)
(* PhenoMLClient.request                                                   *)
(***************************************************************************)
\* a variant of RequestSent without the token guard
RequestSentUnguarded(tok, method, endpoint, data) ==
  IF Upper(method) = "GET" THEN <<HttpReq("GET", endpoint, PyNone)>>
  ELSE IF Upper(method) = "POST" THEN <<HttpReq("POST", endpoint, data)>>
  ELSE <<>>

\* a variant of RequestSent that sends every request a second time
RequestSentRetrying(tok, method, endpoint, data) ==
  IF ~Truthy(tok) THEN <<>>
  ELSE IF Upper(method) = "GET"
       THEN <<HttpReq("GET", endpoint, PyNone), HttpReq("GET", endpoint, PyNone)>>
  ELSE IF Upper(method) = "POST"
       THEN <<HttpReq("POST", endpoint, data), HttpReq("POST", endpoint, data)>>
  ELSE <<>>

\* the requests one call of request() puts on the wire
RequestSent(tok, method, endpoint, data) ==
  IF ~Truthy(tok) THEN <<>>
  ELSE IF Upper(method) = "GET" THEN <<HttpReq("GET", endpoint, PyNone)>>
  ELSE IF Upper(method) = "POST" THEN <<HttpReq("POST", endpoint, data)>>
  ELSE <<>>

\* what request() returns
RequestReturn(tok, method, reply) ==
  IF ~Truthy(tok) THEN PyNone
  ELSE IF Upper(method) \notin {"GET", "POST"} THEN PyNone
  ELSE IF reply.t \in {"raise", "invalid"} THEN PyNone
  ELSE reply

RequestOut(tok, method, reply) ==
  IF ~Truthy(tok) THEN <<Line("no_token")>>
  ELSE IF Upper(method) \notin {"GET", "POST"} \/ reply.t \in {"raise", "invalid"}
       THEN <<Line("request_error")>>
  ELSE <<>>

\* request() as one value: [ret, sent, out]
ClientRequest(tok, method, endpoint, data, reply) ==
  [ret |-> RequestReturn(tok, method, reply),
   sent |-> RequestSent(tok, method, endpoint, data),
   out |-> RequestOut(tok, method, reply)]

Methods == {"GET", "get", "POST", "DELETE"}
RawBodies == {PyNone, JMap([text |-> JStr("x")])}
RawReplies ==
  {TransportRaise, InvalidJson, PyNone, JList(<<JStr("x")>>), JMap(EmptyDict),
   JMap([success |-> JBool(TRUE)]), JMap([success |-> JBool(FALSE)])}

Request ==
  \E method \in Methods, data \in RawBodies, reply \in RawReplies :
    LET r == ClientRequest(token, method, "/agent/list", data, reply) IN
    /\ call' = [op |-> "request",
                args |-> [method |-> method, data |-> data],
                replies |-> IF r.sent = <<>> THEN <<>> ELSE <<reply>>,
                ret |-> r.ret, raised |-> FALSE, sent |-> r.sent, out |-> r.out]
    /\ prevToken' = token
    /\ UNCHANGED token

(***************************************************************************)
(* Helpers shared by the demo operations.                                  *)
(***************************************************************************)
\* an operation that returned / an operation that let an exception escape
Returned(ret, used, sent, out) ==
  [ret |-> ret, raised |-> FALSE, replies |-> used, sent |-> sent, out |-> out]
Raised(used, sent, out) ==
  [ret |-> PyNone, raised |-> TRUE, replies |-> used, sent |-> sent, out |-> out]

\* the replies a request consumed: none when nothing went on the wire
Used(r, reply) == IF r.sent = <<>> THEN <<>> ELSE <<reply>>

\* x.get(...) raises AttributeError unless x is a dict
IsMap(v) == v.t = "map"
\* `response and response.get('success')`: "raise" when response is truthy
\* and not a dict, else the truth value of the test
SuccessTest(response) ==
  IF ~Truthy(response) THEN "no"
  ELSE IF ~IsMap(response) THEN "raise"
  ELSE IF Truthy(Get(response, "success", PyNone)) THEN "yes"
  ELSE "no"

\* the meta dict the lang2fhir and cohort operations assemble
BuildMeta(fhir_store_id, instance_name, on_behalf_of_email) ==
  LET m1 == IF Truthy(fhir_store_id)
            THEN Put(EmptyDict, "fhir_store_id", fhir_store_id) ELSE EmptyDict
      m2 == IF Truthy(instance_name)
            THEN Put(m1, "instance_name", instance_name) ELSE m1
  IN IF Truthy(on_behalf_of_email)
     THEN Put(m2, "on_behalf_of_email", on_behalf_of_email) ELSE m2

\* if meta: data["meta"] = meta
AddMeta(data, meta) ==
  IF DOMAIN meta # {} THEN Put(data, "meta", JMap(meta)) ELSE data

\* if value: data[key] = value
AddIf(data, key, value) == IF Truthy(value) THEN Put(data, key, value) ELSE data

\* the else branch shared by the demo operations: print the failure, and the
\* reply's message when there is a reply; return None
FailBranch(tag, response, used, sent, out) ==
  Returned(PyNone, used, sent,
           out \o <<Line(tag)>>
               \o (IF Truthy(response) THEN <<Line("error_message")>> ELSE <<>>))

\* optional string arguments as callers pass them
Opt(v) == {PyNone, v}
OptStr(v) == {PyNone, JStr(""), JStr(v)}

\* the calls of one operation: every argument combination against the reply
\* ok, and every reply against the argument combinations in some
Calls(Args, Replies, some, ok) == (Args \X {ok}) \cup (some \X Replies)

(***************************************************************************)
(* demo_lang2fhir_create                                                   *)
(***************************************************************************)
CreateBody(a) ==
  AddMeta(AddIf([resource |-> a.resource_type, text |-> a.text],
                "provider", a.provider),
          BuildMeta(a.fhir_store_id, a.instance_name, a.on_behalf_of_email))

DemoLang2FhirCreate(tok, a, reply) ==
  LET data == CreateBody(a)
      r == ClientRequest(tok, "POST", "/tools/lang2fhir-and-create", JMap(data), reply)
      response == r.ret
      used == Used(r, reply)
      out0 == <<Line("creating"), Line("payload")>> \o r.out
      test == SuccessTest(response)
  IN IF test = "raise" THEN Raised(used, r.sent, out0)
     ELSE IF test = "yes"
     THEN LET fhir_resource == Get(response, "fhir_resource", JMap(EmptyDict))
              out1 == out0 \o <<Line("created")>>
          IN IF ~IsMap(fhir_resource) THEN Raised(used, r.sent, out1)
             ELSE Returned(response, used, r.sent,
                    out1 \o <<Line("type"), Line("id")>>
                         \o (IF Truthy(Get(response, "message", PyNone))
                             THEN <<Line("message")>> ELSE <<>>))
     ELSE FailBranch("create_failed", response, used, r.sent, out0)

CreateArgs ==
  [resource_type : {JStr("Patient")}, text : {JStr("text")},
   provider : OptStr("medgemma"), fhir_store_id : OptStr("fs"),
   instance_name : Opt(JStr("inst")), on_behalf_of_email : Opt(JStr("a@b"))]
Patient == JMap([resourceType |-> JStr("Patient")])
CreateOk ==
  JMap([success |-> JBool(TRUE), fhir_resource |-> Patient, fhir_id |-> JStr("123")])
CreateReplies ==
  {TransportRaise, PyNone, JList(<<JStr("x")>>), JMap(EmptyDict),
   JMap([success |-> JBool(FALSE), message |-> JStr("bad")]),
   JMap([success |-> JBool(TRUE)]),
   JMap([success |-> JBool(TRUE), fhir_resource |-> PyNone]),
   CreateOk,
   JMap([success |-> JBool(TRUE), fhir_resource |-> Patient, fhir_id |-> JStr("123"),
         message |-> JStr("ok")])}

\* one invocation of a demo operation, recorded in call
Invoke(op, a, res) ==
  /\ call' = [op |-> op, args |-> a, replies |-> res.replies, ret |-> res.ret,
              raised |-> res.raised, sent |-> res.sent, out |-> res.out]
  /\ prevToken' = token
  /\ UNCHANGED token

CreateSome ==
  {a \in CreateArgs : a.provider = PyNone /\ a.instance_name = PyNone
                      /\ a.fhir_store_id = PyNone}

Lang2FhirCreate ==
  \E c \in Calls(CreateArgs, CreateReplies, CreateSome, CreateOk) :
    Invoke("demo_lang2fhir_create", c[1], DemoLang2FhirCreate(token, c[1], c[2]))

(***************************************************************************)
(* demo_lang2fhir_search                                                   *)
(***************************************************************************)
Min(a, b) == IF a < b THEN a ELSE b

SearchBody(a) ==
  LET d1 == AddMeta(AddIf([text |-> a.text], "provider", a.provider),
                    BuildMeta(a.fhir_store_id, a.instance_name, a.on_behalf_of_email))
      d2 == AddIf(d1, "patient_id", a.patient_id)
      d3 == AddIf(d2, "practitioner_id", a.practitioner_id)
  IN AddIf(d3, "count", a.count)

SampleCap == 3  \* results[:3]

\* for i, x in enumerate(items[:cap]): print(... x.get(...) ...): the lines
\* printed, up to the first entry that is not a dict
FirstBad(items, cap) ==
  LET bad == {i \in 1..Min(Len(items), cap) : ~IsMap(items[i])}
  IN IF bad = {} THEN 0 ELSE CHOOSE i \in bad : \A j \in bad : i <= j

SampleLines(tag, items, cap) ==
  LET b == FirstBad(items, cap)
      k == IF b = 0 THEN Min(Len(items), cap) ELSE b - 1
  IN [i \in 1..k |-> LineN(tag, i)]

\* if len(items) > cap: print(f"... and {len(items) - cap} more")
MoreLine(items, cap) ==
  IF Len(items) > cap THEN <<LineN("more", Len(items) - cap)>> ELSE <<>>

DemoLang2FhirSearch(tok, a, reply) ==
  LET data == SearchBody(a)
      r == ClientRequest(tok, "POST", "/tools/lang2fhir-and-search", JMap(data), reply)
      response == r.ret
      used == Used(r, reply)
      out0 == <<Line("searching"), Line("payload")>> \o r.out
      test == SuccessTest(response)
  IN IF test = "raise" THEN Raised(used, r.sent, out0)
     ELSE IF test = "yes"
     THEN LET results == Get(response, "fhir_results", JList(<<>>)) IN
          IF results.t # "list" THEN Raised(used, r.sent, out0)
          ELSE LET out1 == out0 \o <<LineN("found", Len(results.l)),
                                     Line("resource_type"), Line("search_params")>>
                           \o SampleLines("sample", results.l, SampleCap)
               IN IF FirstBad(results.l, SampleCap) # 0 THEN Raised(used, r.sent, out1)
                  ELSE Returned(response, used, r.sent,
                         out1 \o MoreLine(results.l, SampleCap)
                              \o (IF Truthy(Get(response, "message", PyNone))
                                  THEN <<Line("message")>> ELSE <<>>))
     ELSE FailBranch("search_failed", response, used, r.sent, out0)

SearchArgs ==
  [text : {JStr("text")}, provider : Opt(JStr("medgemma")),
   fhir_store_id : Opt(JStr("fs")), instance_name : Opt(JStr("inst")),
   on_behalf_of_email : Opt(JStr("a@b")), patient_id : Opt(JStr("pt1")),
   practitioner_id : Opt(JStr("pr1")), count : {PyNone, JInt(0), JInt(5)}]
SearchSome ==
  {a \in SearchArgs : a.provider = PyNone /\ a.fhir_store_id = PyNone
                      /\ a.instance_name = PyNone /\ a.on_behalf_of_email = PyNone
                      /\ a.patient_id = PyNone /\ a.practitioner_id = PyNone
                      /\ a.count \in {PyNone, JInt(5)}}

Resource(i) == JMap([resourceType |-> JStr("Patient"), id |-> JInt(i)])
Results(n) == [i \in 1..n |-> Resource(i)]
SearchOk == JMap([success |-> JBool(TRUE), fhir_results |-> JList(Results(1))])
SearchReplies ==
  {TransportRaise, JList(<<JStr("x")>>), JMap(EmptyDict),
   JMap([success |-> JBool(FALSE), fhir_results |-> Results(1)]),
   JMap([success |-> JBool(TRUE)]),
   JMap([success |-> JBool(TRUE), fhir_results |-> PyNone]),
   JMap([success |-> JBool(TRUE), fhir_results |-> JList(<<JStr("Patient/1")>>)]),
   JMap([success |-> JBool(TRUE),
         fhir_results |-> JList(Results(MaxResults - 1) \o <<JStr("Patient/x")>>)]),
   JMap([success |-> JBool(TRUE), fhir_results |-> JList(Results(MaxResults)),
         message |-> JStr("ok")])}
  \cup {JMap([success |-> JBool(TRUE), fhir_results |-> JList(Results(n))]) :
          n \in 0..MaxResults}

Lang2FhirSearch ==
  \E c \in Calls(SearchArgs, SearchReplies, SearchSome, SearchOk) :
    Invoke("demo_lang2fhir_search", c[1], DemoLang2FhirSearch(token, c[1], c[2]))

(***************************************************************************)
(* demo_cohort_tool                                                        *)
(***************************************************************************)
CohortBody(a) ==
  AddMeta([text |-> a.text, provider |-> a.provider],
          BuildMeta(a.fhir_store_id, a.instance_name, a.on_behalf_of_email))

PatientCap == 5  \* patient_ids[:5]

DemoCohortTool(tok, a, reply) ==
  LET data == CohortBody(a)
      r == ClientRequest(tok, "POST", "/tools/cohort", JMap(data), reply)
      response == r.ret
      used == Used(r, reply)
      out0 == <<Line("cohort"), Line("payload")>> \o r.out
      test == SuccessTest(response)
  IN IF test = "raise" THEN Raised(used, r.sent, out0)
     ELSE IF test = "yes"
     THEN LET patient_ids == Get(response, "patientIds", JList(<<>>))
              queries == Get(response, "queries", JList(<<>>))
              out1 == out0 \o <<Line("cohort_ok"), Line("patient_count")>>
          IN IF queries.t # "list" THEN Raised(used, r.sent, out1)
             ELSE
             LET out2 == out1 \o <<LineN("concepts", Len(queries.l))>>
                           \o (IF Truthy(Get(response, "message", JStr("")))
                               THEN <<Line("message")>> ELSE <<>>)
                           \o (IF Truthy(patient_ids)
                               THEN <<Line("sample_ids")>>
                                    \o [i \in 1..Min(Len(patient_ids.l), PatientCap)
                                          |-> LineN("patient", i)]
                                    \o MoreLine(patient_ids.l, PatientCap)
                               ELSE <<>>)
                 out3 == out2 \o (IF Truthy(queries) THEN <<Line("search_concepts")>>
                                  ELSE <<>>)
                              \o SampleLines("query", queries.l, Len(queries.l))
             IN IF FirstBad(queries.l, Len(queries.l)) # 0
                THEN Raised(used, r.sent, out3)
                ELSE Returned(response, used, r.sent, out3)
     ELSE FailBranch("cohort_failed", response, used, r.sent, out0)

CohortArgs ==
  [text : {JStr("text")}, provider : {JStr("medgemma")},
   fhir_store_id : OptStr("fs"), instance_name : Opt(JStr("inst")),
   on_behalf_of_email : Opt(JStr("a@b"))]
PatientIds(n) == [i \in 1..n |-> JInt(i)]
Query == JMap([resourceType |-> JStr("Condition"), concept |-> JStr("diabetes")])
CohortPatientIds == {JList(PatientIds(n)) : n \in 0..MaxPatients} \cup {PyNone}
CohortQueries == {PyNone, JList(<<Query>>), JList(<<Query, JStr("q")>>)}
CohortOk == JMap([success |-> JBool(TRUE), patientIds |-> JList(PatientIds(1))])
CohortReplies ==
  {TransportRaise, JList(<<JStr("x")>>), CohortOk,
   JMap([success |-> JBool(FALSE), message |-> JStr("bad")]),
   JMap([success |-> JBool(TRUE)])}
  \cup {JMap([success |-> JBool(TRUE), patientIds |-> p]) : p \in CohortPatientIds}
  \cup {JMap([success |-> JBool(TRUE), patientIds |-> p, queries |-> q]) :
          p \in CohortPatientIds, q \in CohortQueries}
CohortSome ==
  {a \in CohortArgs : a.instance_name = PyNone
                      /\ a.fhir_store_id = PyNone}

CohortTool ==
  \E c \in Calls(CohortArgs, CohortReplies, CohortSome, CohortOk) :
    Invoke("demo_cohort_tool", c[1], DemoCohortTool(token, c[1], c[2]))

(***************************************************************************)
(* create_prompt                                                           *)
(***************************************************************************)
PromptBody(a) ==
  [name |-> a.name, description |-> PyOr(a.description, JStr("Prompt for " \o a.name.s)),
   type |-> JStr("system"), content |-> a.content, is_active |-> JBool(TRUE),
   is_default |-> JBool(FALSE), tags |-> JList(<<JStr("demo")>>)]

\* for prompt in prompts: if prompt.get('name') == name: ... : the index of
\* the first entry that matches or is not a dict, 0 when there is none
FirstHit(prompts, name) ==
  LET hit == {i \in 1..Len(prompts) :
                ~IsMap(prompts[i]) \/ Get(prompts[i], "name", PyNone) = name}
  IN IF hit = {} THEN 0 ELSE CHOOSE i \in hit : \A j \in hit : i <= j

\* the fallback of create_prompt: list the prompts and look the name up
FindPrompt(tok, a, reply, used0, sent0, out0) ==
  LET r == ClientRequest(tok, "GET", "/agent/prompts", PyNone, reply)
      response == r.ret
      used == used0 \o Used(r, reply)
      sent == sent0 \o r.sent
      out1 == out0 \o r.out
      test == SuccessTest(response)
      notFound == Returned(PyNone, used, sent, out1 \o <<Line("prompt_failed")>>)
  IN IF test = "raise" THEN Raised(used, sent, out1)
     ELSE IF test = "yes"
     THEN LET prompts == PyOr(Get(response, "prompts", JList(<<>>)),
                              Get(response, "data", JList(<<>>)))
          IN IF prompts.t # "list" THEN Raised(used, sent, out1)
             ELSE LET h == FirstHit(prompts.l, a.name) IN
                  IF h = 0 THEN notFound
                  ELSE IF ~IsMap(prompts.l[h]) THEN Raised(used, sent, out1)
                  ELSE Returned(Get(prompts.l[h], "id", PyNone), used, sent,
                                out1 \o <<Line("prompt_found")>>)
     ELSE notFound

CreatePrompt(tok, a, reply1, reply2) ==
  LET r == ClientRequest(tok, "POST", "/agent/prompts", JMap(PromptBody(a)), reply1)
      response == r.ret
      used == Used(r, reply1)
      out0 == <<Line("creating_prompt")>> \o r.out
      test == SuccessTest(response)
  IN IF test = "raise" THEN Raised(used, r.sent, out0)
     ELSE IF test = "yes"
     THEN LET d == Get(response, "data", JMap(EmptyDict)) IN
          IF ~IsMap(d) THEN Raised(used, r.sent, out0)
          ELSE LET prompt_id == PyOr(Get(d, "id", PyNone), Get(response, "id", PyNone))
               IN IF Truthy(prompt_id)
                  THEN Returned(prompt_id, used, r.sent, out0 \o <<Line("prompt_created")>>)
                  ELSE FindPrompt(tok, a, reply2, used, r.sent, out0)
     ELSE FindPrompt(tok, a, reply2, used, r.sent, out0)

PromptArgs ==
  [name : {JStr("triage")}, content : {JStr("You triage.")},
   description : OptStr("desc")]
PromptCreateOk == JMap([success |-> JBool(TRUE), data |-> JMap([id |-> JStr("new")])])
PromptCreateReplies ==
  {TransportRaise, JList(<<JStr("x")>>), PromptCreateOk,
   JMap([success |-> JBool(FALSE), message |-> JStr("exists")]),
   JMap([success |-> JBool(TRUE)]),
   JMap([success |-> JBool(TRUE), data |-> PyNone]),
   JMap([success |-> JBool(TRUE), id |-> JStr("top")]),
   JMap([success |-> JBool(TRUE), data |-> JMap(EmptyDict), id |-> JStr("top")]),
   JMap([success |-> JBool(TRUE), data |-> JMap([id |-> JStr("new")]),
         id |-> JStr("top")])}
Prompt(name, id) == JMap([name |-> JStr(name), id |-> JStr(id)])
PromptLists ==
  {<<>>, <<Prompt("other", "o1")>>,
   <<Prompt("other", "o1"), Prompt("triage", "a"), Prompt("triage", "b")>>,
   <<JMap([name |-> JStr("triage")]), Prompt("triage", "b")>>,
   <<JStr("x"), Prompt("triage", "a")>>,
   <<Prompt("triage", "a"), JStr("x")>>}
PromptListReplies ==
  {TransportRaise, JList(<<JStr("x")>>),
   JMap([success |-> JBool(FALSE), prompts |-> JList(<<Prompt("triage", "a")>>)]),
   JMap([prompts |-> JList(<<Prompt("triage", "a")>>)]),
   JMap([success |-> JBool(TRUE)]),
   JMap([success |-> JBool(TRUE), prompts |-> PyNone, data |-> PyNone]),
   JMap([success |-> JBool(TRUE), prompts |-> JList(<<>>),
         data |-> JList(<<Prompt("triage", "d")>>)]),
   JMap([success |-> JBool(TRUE), prompts |-> JList(<<Prompt("other", "o1")>>),
         data |-> JList(<<Prompt("triage", "d")>>)])}
  \cup {JMap([success |-> JBool(TRUE), prompts |-> JList(l)]) : l \in PromptLists}
PromptCalls ==
  (PromptArgs \X {PromptCreateOk} \X {TransportRaise})
  \cup ({a \in PromptArgs : a.description = PyNone}
        \X PromptCreateReplies \X PromptListReplies)

CreatePromptOp ==
  \E c \in PromptCalls :
    Invoke("create_prompt", c[1], CreatePrompt(token, c[1], c[2], c[3]))

(***************************************************************************)
(* list_prompts, list_agents                                               *)
(***************************************************************************)
\* the listing both operations do, over the reply's `key` or `data` entry
ListItems(tok, endpoint, key, reply) ==
  LET r == ClientRequest(tok, "GET", endpoint, PyNone, reply)
      response == r.ret
      used == Used(r, reply)
      out0 == <<Line("listing")>> \o r.out
      test == SuccessTest(response)
  IN IF test = "raise" THEN Raised(used, r.sent, out0)
     ELSE IF test = "yes"
     THEN LET items == PyOr(Get(response, key, JList(<<>>)),
                            Get(response, "data", JList(<<>>)))
          IN IF items.t # "list" THEN Raised(used, r.sent, out0)
             ELSE LET out1 == out0 \o <<LineN("found", Len(items.l))>>
                                   \o SampleLines("item", items.l, Len(items.l))
                  IN IF FirstBad(items.l, Len(items.l)) # 0
                     THEN Raised(used, r.sent, out1)
                     ELSE Returned(items, used, r.sent, out1)
     ELSE Returned(PyNone, used, r.sent, out0 \o <<Line("list_failed")>>)

ListPrompts ==
  \E reply \in PromptListReplies :
    Invoke("list_prompts", NoArgs, ListItems(token, "/agent/prompts", "prompts", reply))

Agent(name, id) == JMap([name |-> JStr(name), id |-> JStr(id)])
AgentListReplies ==
  {TransportRaise, JList(<<JStr("x")>>), JMap([success |-> JBool(FALSE)]),
   JMap([success |-> JBool(TRUE)]),
   JMap([success |-> JBool(TRUE), agents |-> PyNone, data |-> PyNone]),
   JMap([success |-> JBool(TRUE), agents |-> JList(<<Agent("a", "1"), Agent("b", "2")>>)]),
   JMap([success |-> JBool(TRUE), agents |-> JList(<<Agent("a", "1"), JStr("b")>>)]),
   JMap([success |-> JBool(TRUE), data |-> JList(<<Agent("a", "1")>>)])}

ListAgents ==
  \E reply \in AgentListReplies :
    Invoke("list_agents", NoArgs, ListItems(token, "/agent/list", "agents", reply))

(***************************************************************************)
(* create_agent                                                            *)
(***************************************************************************)
DefaultTools == JList(<<JStr("lang2fhir_create"), JStr("lang2fhir_search")>>)

\* ', '.join(provider) raises TypeError unless every element is a str
Joinable(l) == \A i \in 1..Len(l) : l[i].t = "str"

\* the provider branch of create_agent: what it does to the body
AgentProvider(data, provider) ==
  IF Truthy(provider) /\ provider.t \in {"str", "list"}
  THEN Put(data, "provider", provider)
  ELSE data

\* ... what it prints, and whether the join raises
AgentProviderOut(provider) ==
  IF ~Truthy(provider) THEN <<>>
  ELSE IF provider.t = "str" THEN <<Line("using_provider")>>
  ELSE IF provider.t = "list"
       THEN IF Joinable(provider.l) THEN <<Line("using_providers")>> ELSE <<>>
  ELSE <<Line("warning_invalid_provider")>>

AgentProviderRaises(provider) ==
  Truthy(provider) /\ provider.t = "list" /\ ~Joinable(provider.l)

AgentBody(a) ==
  LET d0 == [name |-> a.name, description |-> JStr("AI agent for " \o a.name.s),
             prompts |-> a.prompts, is_active |-> JBool(TRUE),
             tools |-> PyOr(a.tools, DefaultTools), tags |-> JList(<<JStr("demo")>>)]
  IN AddIf(AgentProvider(d0, a.provider), "meta", a.meta)

CreateAgent(tok, a, reply) ==
  LET out0 == <<Line("creating_agent")>> \o AgentProviderOut(a.provider) IN
  IF AgentProviderRaises(a.provider) THEN Raised(<<>>, <<>>, out0)
  ELSE
  LET r == ClientRequest(tok, "POST", "/agent/create", JMap(AgentBody(a)), reply)
      response == r.ret
      used == Used(r, reply)
      out1 == out0 \o <<Line("payload")>> \o r.out
      test == SuccessTest(response)
      failed == Returned(PyNone, used, r.sent,
                  out1 \o <<Line("agent_failed")>>
                       \o (IF Truthy(response) /\ Truthy(Get(response, "message", PyNone))
                           THEN <<Line("error_message")>> ELSE <<>>))
  IN IF test = "raise" THEN Raised(used, r.sent, out1)
     ELSE IF test = "yes"
     THEN LET d == Get(response, "data", JMap(EmptyDict)) IN
          IF ~IsMap(d) THEN Raised(used, r.sent, out1)
          ELSE LET agent_id == Get(d, "id", PyNone) IN
               IF Truthy(agent_id)
               THEN Returned(agent_id, used, r.sent, out1 \o <<Line("agent_created")>>)
               ELSE failed
     ELSE failed

Providers ==
  {PyNone, JStr(""), JStr("openai"), JList(<<>>),
   JList(<<JStr("openai"), JStr("anthropic")>>),
   JList(<<JStr("anthropic"), JStr("openai")>>),
   JList(<<JStr("openai"), JInt(123)>>), JInt(123), JInt(0)}
AgentArgs ==
  [name : {JStr("helper")}, prompts : {JList(<<JStr("new")>>)},
   tools : {PyNone, JList(<<>>), JList(<<JStr("cohort")>>)},
   provider : Providers,
   meta : {PyNone, JMap(EmptyDict), JMap([fhir_store_id |-> JStr("fs")])}]
AgentOk == JMap([success |-> JBool(TRUE), data |-> JMap([id |-> JStr("agent1")])])
AgentReplies ==
  {TransportRaise, JList(<<JStr("x")>>), AgentOk,
   JMap([success |-> JBool(FALSE), message |-> JStr("bad")]),
   JMap([success |-> JBool(TRUE)]),
   JMap([success |-> JBool(TRUE), data |-> PyNone]),
   JMap([success |-> JBool(TRUE), data |-> JMap(EmptyDict), id |-> JStr("top")])}
AgentSome ==
  {a \in AgentArgs : a.tools = PyNone /\ a.meta = PyNone
                     /\ a.provider \in {PyNone, JInt(123)}}

CreateAgentOp ==
  \E c \in Calls(AgentArgs, AgentReplies, AgentSome, AgentOk) :
    Invoke("create_agent", c[1], CreateAgent(token, c[1], c[2]))

(***************************************************************************)
(* chat_with_agent                                                         *)
(***************************************************************************)
ChatBody(a) ==
  [message |-> a.message, agent_id |-> a.agent_id, session_id |-> a.session_id]

ChatWithAgent(tok, a, reply) ==
  LET r == ClientRequest(tok, "POST", "/agent/chat", JMap(ChatBody(a)), reply)
      response == r.ret
      used == Used(r, reply)
      out0 == <<Line("chatting")>> \o r.out
      test == SuccessTest(response)
  IN IF test = "raise" THEN Raised(used, r.sent, out0)
     ELSE IF test = "yes"
     THEN Returned(response, used, r.sent, out0 \o <<Line("agent_says")>>)
     ELSE FailBranch("chat_failed", response, used, r.sent, out0)

ChatArgs ==
  [message : {JStr("hello")}, agent_id : {JStr("agent1")},
   session_id : OptStr("s1")]
ChatReplies ==
  {TransportRaise, JList(<<JStr("x")>>), JMap(EmptyDict),
   JMap([success |-> JBool(FALSE), message |-> JStr("bad")]),
   JMap([success |-> JBool(TRUE), response |-> JStr("hi")])}

ChatWithAgentOp ==
  \E a \in ChatArgs, reply \in ChatReplies :
    Invoke("chat_with_agent", a, ChatWithAgent(token, a, reply))

(***************************************************************************)
(* extract_medical_codes                                                   *)
(***************************************************************************)
ExtractBody(a) ==
  [system |-> JMap([name |-> a.system_name, version |-> a.system_version]),
   config |-> JMap([chunking_method |-> JStr("none"),
                    max_codes_per_chunk |-> JInt(20),
                    code_similarity_filter |-> JStr("0.9"),
                    include_rationale |-> a.include_rationale]),
   text |-> a.text]

\* the lines one code prints: its reason only with include_rationale
CodeLines(code, include_rationale) ==
  <<Line("code"), Line("description")>>
  \o (IF Truthy(Get(code, "reason", JStr(""))) /\ Truthy(include_rationale)
      THEN <<Line("reason")>> ELSE <<>>)

RECURSIVE CodesOut(_, _)
CodesOut(codes, include_rationale) ==
  IF codes = <<>> \/ ~IsMap(Head(codes)) THEN <<>>
  ELSE CodeLines(Head(codes), include_rationale)
       \o CodesOut(Tail(codes), include_rationale)

ExtractMedicalCodes(tok, a, reply) ==
  LET r == ClientRequest(tok, "POST", "/construe/extract", JMap(ExtractBody(a)), reply)
      response == r.ret
      used == Used(r, reply)
      out0 == <<Line("extracting"), Line("payload")>> \o r.out
  IN IF ~Truthy(response)
     THEN Returned(PyNone, used, r.sent,
                   out0 \o <<Line("extract_failed"), Line("no_response")>>)
     ELSE IF ~IsMap(response) THEN Raised(used, r.sent, out0)
     ELSE LET codes == Get(response, "codes", PyNone) IN
          IF Truthy(codes)
          THEN LET system_info == Get(response, "system", JMap(EmptyDict))
                   out1 == out0 \o <<Line("extracted")>>
               IN IF ~IsMap(system_info) \/ codes.t # "list"
                  THEN Raised(used, r.sent, out1)
                  ELSE LET out2 == out1 \o <<Line("system"), LineN("found", Len(codes.l))>>
                                        \o CodesOut(codes.l, a.include_rationale)
                       IN IF FirstBad(codes.l, Len(codes.l)) # 0
                          THEN Raised(used, r.sent, out2)
                          ELSE Returned(response, used, r.sent, out2)
          ELSE Returned(PyNone, used, r.sent,
                        out0 \o <<Line("extract_failed"), Line("error_message")>>)

ExtractArgs ==
  [text : {JStr("chest pain")}, system_name : {JStr("ICD-10-CM")},
   system_version : {JStr("2025")}, include_rationale : {JBool(TRUE), JBool(FALSE)}]
Code(reason) == JMap([code |-> JStr("R07.9"), reason |-> reason])
ExtractReplies ==
  {TransportRaise, JList(<<JStr("x")>>), JMap(EmptyDict),
   JMap([message |-> JStr("bad")]), JMap([codes |-> JList(<<>>)]),
   JMap([codes |-> JList(<<Code(JStr("pain")), Code(JStr(""))>>)]),
   JMap([codes |-> JList(<<Code(JStr("pain"))>>), system |-> PyNone]),
   JMap([codes |-> JList(<<Code(JStr("pain")), JStr("R07.9")>>)]),
   JMap([codes |-> JList(<<Code(JStr("pain"))>>),
         system |-> JMap([name |-> JStr("ICD-10-CM")])])}

ExtractMedicalCodesOp ==
  \E a \in ExtractArgs, reply \in ExtractReplies :
    Invoke("extract_medical_codes", a, ExtractMedicalCodes(token, a, reply))

Next ==
  \/ Authenticate
  \/ Request
  \/ Lang2FhirCreate
  \/ Lang2FhirSearch
  \/ CohortTool
  \/ CreatePromptOp
  \/ ListPrompts
  \/ ListAgents
  \/ CreateAgentOp
  \/ ChatWithAgentOp
  \/ ExtractMedicalCodesOp

Spec == Init /\ [][Next]_vars

(***************************************************************************)
(* Properties.                                                             *)
(***************************************************************************)
Range(q) == {q[i] : i \in DOMAIN q}
CountLines(out, tag) == Cardinality({i \in DOMAIN out : out[i].line = tag})
DemoOps ==
  {"demo_lang2fhir_create", "demo_lang2fhir_search", "demo_cohort_tool",
   "create_prompt", "create_agent", "chat_with_agent", "list_prompts",
   "list_agents", "extract_medical_codes"}

\* C1: request() (called directly or by a demo operation) puts a request on
\* the wire only when the client holds a token; without one it returns None,
\* sends nothing, reaches no /auth/token and leaves the token as it was.
C1_RequestNeedsToken ==
  call.op \in DemoOps \cup {"request"} =>
    /\ call.sent # <<>> => Truthy(prevToken)
    /\ \A i \in DOMAIN call.sent : call.sent[i].endpoint # "/auth/token"
    /\ token = prevToken
    /\ ~Truthy(prevToken) /\ call.op = "request" =>
         call.ret = PyNone /\ call.sent = <<>> /\ call.out = <<Line("no_token")>>

\* a request() on a client whose authenticate() never produced a token
C1_Witness ==
  /\ call.op = "request"
  /\ call.args.method = "POST"
  /\ prevToken = PyNone
  /\ call.ret = PyNone
  /\ call.sent = <<>>

\* C2: when authenticate() gets a non-200 status or the transport raises, it
\* returns False and the token is the one the client held before the call.
C2_FailedAuthKeepsToken ==
  call.op = "authenticate" =>
    LET reply == call.replies[1] IN
    (reply.t = "raise" \/ reply.status # 200) =>
      call.ret = JBool(FALSE) /\ token = prevToken

\* a 401 answered to a client that already held a token
C2_Witness ==
  /\ call.op = "authenticate"
  /\ call.replies[1].t = "http"
  /\ call.replies[1].status = 401
  /\ prevToken = JStr("t1")
  /\ token = JStr("t1")
  /\ call.ret = JBool(FALSE)

\* C3: whenever authenticate() returns True the client holds a token taken
\* from the 200 reply (its token field, else its access_token field), so the
\* next request() is not refused for a missing token.
C3_TrueMeansToken ==
  call.op = "authenticate" /\ call.ret = JBool(TRUE) =>
    /\ Truthy(token)
    /\ token \in {Get(call.replies[1].json, "token", PyNone),
                  Get(call.replies[1].json, "access_token", PyNone)}

\* C4: once the token is set it stays set, whatever is called next and
\* whatever the server answers.
C4_TokenStaysSet == prevToken # PyNone => token # PyNone

\* C5: the body of a lang2fhir create, lang2fhir search, cohort, create_agent
\* or chat request holds no null value, holds an optional field only when
\* the caller supplied it, and holds meta only when a meta field was supplied.
C5_Supplied(v) == v # PyNone /\ (v.t = "list" => Len(v.l) > 0)
C5_Optional(op) ==
  CASE op = "demo_lang2fhir_create" -> {"provider"}
    [] op = "demo_lang2fhir_search" ->
         {"provider", "patient_id", "practitioner_id", "count"}
    [] op = "demo_cohort_tool" -> {}
    [] op = "create_agent" -> {"provider", "meta"}
    [] op = "chat_with_agent" -> {"session_id"}
C5_MetaSupplied(op, a) ==
  IF op = "create_agent" THEN C5_Supplied(a.meta)
  ELSE IF op = "chat_with_agent" THEN FALSE
  ELSE \/ C5_Supplied(a.fhir_store_id)
       \/ C5_Supplied(a.instance_name)
       \/ C5_Supplied(a.on_behalf_of_email)
C5_NoNullNoUnsupplied ==
  /\ call.op \in {"demo_lang2fhir_create", "demo_lang2fhir_search",
                  "demo_cohort_tool", "create_agent", "chat_with_agent"}
  /\ call.sent # <<>>
  => LET body == call.sent[1].body.m IN
     /\ \A k \in DOMAIN body : body[k] # PyNone
     /\ \A k \in C5_Optional(call.op) \cap DOMAIN body : C5_Supplied(call.args[k])
     /\ "meta" \in DOMAIN body => C5_MetaSupplied(call.op, call.args)

\* C5 holds of every operation but chat_with_agent.
C5_HoldsButChat == call.op = "chat_with_agent" \/ C5_NoNullNoUnsupplied

\* C6: no call of authenticate(), request() or a demo operation lets an
\* exception escape to its caller.
C6_NothingRaised == ~call.raised

\* C7: create_prompt returns the id of a successful create without listing;
\* otherwise it lists the prompts and returns the id of the first prompt
\* whose name is the requested one, or None when there is none or the list
\* call fails.
C7_Succeeded(reply) ==
  reply.t = "map" /\ Truthy(Get(reply, "success", PyNone))
C7_CreatedId(reply) ==
  IF C7_Succeeded(reply)
  THEN LET d == Get(reply, "data", PyNone) IN
       PyOr(IF d.t = "map" THEN Get(d, "id", PyNone) ELSE PyNone,
            Get(reply, "id", PyNone))
  ELSE PyNone
C7_Listed(reply) ==
  IF C7_Succeeded(reply)
  THEN LET l == PyOr(Get(reply, "prompts", PyNone), Get(reply, "data", PyNone))
       IN IF l.t = "list" THEN l.l ELSE <<>>
  ELSE <<>>
C7_Lookup(reply, name) ==
  LET l == C7_Listed(reply)
      m == {i \in DOMAIN l : l[i].t = "map" /\ Get(l[i], "name", PyNone) = name}
  IN IF m = {} THEN PyNone
     ELSE Get(l[CHOOSE i \in m : \A j \in m : i <= j], "id", PyNone)
C7_CreateThenFind ==
  call.op = "create_prompt" /\ Truthy(prevToken) =>
    /\ ~call.raised
    /\ IF Truthy(C7_CreatedId(call.replies[1]))
       THEN call.ret = C7_CreatedId(call.replies[1]) /\ Len(call.sent) = 1
       ELSE /\ Len(call.sent) = 2
            /\ call.sent[2].method = "GET"
            /\ call.sent[2].endpoint = "/agent/prompts"
            /\ call.ret = C7_Lookup(call.replies[2], call.args.name)

\* C7 holds of every create_prompt that returns: it fails only where the
\* operation raises (C6).
C7_HoldsWhereReturned == call.raised \/ C7_CreateThenFind

\* C8: create_agent embeds a supplied string provider as that string and a
\* supplied list as that list, in order; a provider of any other type is left
\* out of the body and the create request is sent all the same.
C8_ProviderEmbedded ==
  call.op = "create_agent" /\ Truthy(prevToken) =>
    LET p == call.args.provider IN
    /\ Truthy(p) /\ p.t \in {"str", "list"} =>
         /\ Len(call.sent) = 1
         /\ "provider" \in DOMAIN call.sent[1].body.m
         /\ call.sent[1].body.m.provider = p
    /\ p.t \notin {"None", "str", "list"} =>
         /\ Len(call.sent) = 1
         /\ call.sent[1].endpoint = "/agent/create"
         /\ "provider" \notin DOMAIN call.sent[1].body.m

\* C8 holds wherever the provider's list holds strings only.
C8_HoldsForStringLists ==
  \/ call.op = "create_agent" /\ AgentProviderRaises(call.args.provider)
  \/ C8_ProviderEmbedded

\* C9: on a successful search reply with n results the search operation
\* reports n, lists min(n, 3) samples and a remainder of n - 3 exactly when
\* n > 3; the cohort operation lists min(m, 5) of m patient identifiers and a
\* remainder of m - 5 exactly when m > 5; both return the reply unchanged.
C9_Capped(reply, key, tag, cap) ==
  LET items == Get(reply, key, PyNone) IN
  C7_Succeeded(reply) /\ items.t = "list" =>
    LET n == Len(items.l) IN
    /\ ~call.raised
    /\ call.ret = reply
    /\ CountLines(call.out, tag) = Min(n, cap)
    /\ CountLines(call.out, "more") = (IF n > cap THEN 1 ELSE 0)
    /\ n > cap => LineN("more", n - cap) \in Range(call.out)
C9_SamplesCapped ==
  /\ call.op = "demo_lang2fhir_search" /\ call.replies # <<>> =>
       /\ C9_Capped(call.replies[1], "fhir_results", "sample", 3)
       /\ C7_Succeeded(call.replies[1])
          /\ Get(call.replies[1], "fhir_results", PyNone).t = "list" =>
            LineN("found", Len(call.replies[1].m.fhir_results.l)) \in Range(call.out)
  /\ call.op = "demo_cohort_tool" /\ call.replies # <<>> =>
       C9_Capped(call.replies[1], "patientIds", "patient", 5)

\* C9 holds of every search and cohort call that returns.
C9_HoldsWhereReturned == call.raised \/ C9_SamplesCapped

\* C10: one invocation sends at most one HTTP request, and after a failed
\* request nothing further is sent.
C10_SingleRoundTrip == Len(call.sent) <= 1

\* C10, amended: every operation but create_prompt sends at most one request;
\* create_prompt sends its create POST and then at most one GET of the prompt
\* list, and that only when the create reply gave no id.
C10_OneRoundTripButCreatePrompt ==
  /\ call.op # "create_prompt" => Len(call.sent) <= 1
  /\ call.op = "create_prompt" =>
       /\ Len(call.sent) <= 2
       /\ Len(call.sent) >= 1 =>
            call.sent[1].method = "POST" /\ call.sent[1].endpoint = "/agent/prompts"
       /\ Len(call.sent) = 2 =>
            /\ call.sent[2] = HttpReq("GET", "/agent/prompts", PyNone)
            /\ ~Truthy(C7_CreatedId(call.replies[1]))

\* a create_prompt whose create failed and whose list call went out
C10_Witness ==
  /\ call.op = "create_prompt"
  /\ Len(call.sent) = 2
  /\ ~C7_Succeeded(call.replies[1])
  /\ call.ret = JStr("a")

====
